---- MODULE Spec2Model ----
(***************************************************************************)
(* A model of src/web/scripts/predict.py: ensure_permutation_ranks,        *)
(* normalize_probs and parse_horse_recent_results.                         *)
(*                                                                         *)
(* Python values are records [t |-> tag, v |-> payload]:                   *)
(*   "int"   v = the integer                                               *)
(*   "float" v = the value in tenths (27 is 2.7); "nan", "inf", "ninf"     *)
(*           are the non-finite floats                                     *)
(*   "str"   v = index into StrSamples (a string is a sequence of          *)
(*           one-character strings)                                        *)
(*   "none"  None                                                          *)
(***************************************************************************)
EXTENDS Integers, Sequences, FiniteSets, TLC

\* ------------------------------------------------------------------- state

\* ensure_permutation_ranks: its arguments, its locals, the loop index, the
\* place reached and the value returned
VARIABLES horse_ids, raw, assigned, used, available, rank_i, rank_pc, rank_result

\* normalize_probs: its argument, the total s, the place reached and the
\* value returned
VARIABLES values, prob_s, prob_pc, prob_result

\* the body of the row loop of parse_horse_recent_results on one row: the
\* cell texts, the place reached, the fields read so far and the record
VARIABLES row_cols, field_pc, fields, item

\* parse_horse_recent_results: the page (its <tr> rows), the limit, the
\* candidate rows, the loop index, the list out, the place reached, whether
\* the except clause ran, and the value returned
VARIABLES markup, limit, rows, parse_i, out, parse_pc, caught, parse_result

rank_vars == <<horse_ids, raw, assigned, used, available, rank_i, rank_pc, rank_result>>
prob_vars == <<values, prob_s, prob_pc, prob_result>>
field_vars == <<row_cols, field_pc, fields, item>>
parse_vars == <<markup, limit, rows, parse_i, out, parse_pc, caught, parse_result>>
vars == <<rank_vars, prob_vars, field_vars, parse_vars>>

\* ------------------------------------------------------------------ bounds

\* the largest number of identifiers handed to ensure_permutation_ranks
MaxN == 3

\* ---------------------------------------------------------- Python values

PyInt(k) == [t |-> "int", v |-> k]
PyFloat(tenths) == [t |-> "float", v |-> tenths]
PyNaN == [t |-> "nan", v |-> 0]
PyInf == [t |-> "inf", v |-> 0]
PyNegInf == [t |-> "ninf", v |-> 0]
PyNone == [t |-> "none", v |-> 0]
PyStr(i) == [t |-> "str", v |-> i]

\* the strings a raw mapping may carry: "abc", "2", " 1 ", "2.5"
StrSamples == << <<"a", "b", "c">>, <<"2">>, <<" ", "1", " ">>, <<"2", ".", "5">> >>

Digits == <<"0", "1", "2", "3", "4", "5", "6", "7", "8", "9">>

IsDigit(ch) == \E d \in 1..10 : Digits[d] = ch

DigitVal(ch) == (CHOOSE d \in 1..10 : Digits[d] = ch) - 1

\* the value of a non-empty run of decimal digits
RECURSIVE DecVal(_)
DecVal(s) == IF Len(s) = 0 THEN 0
             ELSE 10 * DecVal(SubSeq(s, 1, Len(s) - 1)) + DigitVal(s[Len(s)])

AllDigits(s) == Len(s) >= 1 /\ \A i \in 1..Len(s) : IsDigit(s[i])

\* str.strip(): leading and trailing blanks removed
RECURSIVE Strip(_)
Strip(s) == IF Len(s) = 0 THEN s
            ELSE IF s[1] = " " THEN Strip(Tail(s))
            ELSE IF s[Len(s)] = " " THEN Strip(SubSeq(s, 1, Len(s) - 1))
            ELSE s

\* int(s) for a string: blanks stripped, an optional sign, decimal digits.
\* ok = FALSE stands for the ValueError.
IntOfStr(s) ==
    LET b == Strip(s)
        signed == Len(b) >= 1 /\ b[1] \in {"+", "-"}
        body == IF signed THEN Tail(b) ELSE b
    IN  IF ~AllDigits(body) THEN [ok |-> FALSE, v |-> 0]
        ELSE [ok |-> TRUE,
              v |-> IF signed /\ b[1] = "-" THEN 0 - DecVal(body) ELSE DecVal(body)]

\* float-to-int truncation toward zero of a value given in tenths
Trunc(tenths) == IF tenths >= 0 THEN tenths \div 10 ELSE 0 - ((0 - tenths) \div 10)

\* int(v); ok = FALSE stands for the TypeError (None), ValueError (a
\* non-numeric string, NaN) or OverflowError (an infinity) it raises
PyIntOf(val) ==
    CASE val.t = "int" -> [ok |-> TRUE, v |-> val.v]
      [] val.t = "float" -> [ok |-> TRUE, v |-> Trunc(val.v)]
      [] val.t = "str" -> IntOfStr(StrSamples[val.v])
      [] OTHER -> [ok |-> FALSE, v |-> 0]

\* dict.get(key): None for a missing key
DictGet(d, key) == IF key \in DOMAIN d THEN d[key] ELSE PyNone

\* the elements of a sequence
Range(s) == {s[i] : i \in 1..Len(s)}

\* ------------------------------------------------ ensure_permutation_ranks

\* identifier names
IdNames == <<"x", "y", "z", "w", "u", "t">>

\* the canonical orders tried: the first n names, forwards and backwards.
\* Identifiers are opaque dictionary keys and the raw mapping ranges over
\* every mapping, so the other orders are renamings of these.
IdSeqs == UNION {{[i \in 1..n |-> IdNames[i]], [i \in 1..n |-> IdNames[n + 1 - i]]} : n \in 0..MaxN}

\* the values a raw mapping may hold for an identifier: the integers
\* 0..N+2, a float (2.7), NaN, and the strings "abc", "2", " 1 "
RawValues == {PyInt(k) : k \in 0..(MaxN + 2)}
             \cup {PyFloat(27), PyNaN}
             \cup {PyStr(i) : i \in 1..3}

\* every raw mapping over a subset of the identifiers (the others are missing)
RawMaps(ids) == UNION {[keys -> RawValues] : keys \in SUBSET Range(ids)}

\* a variant of Accepts that forgets the test "rank not in used"
AcceptsIgnoringUsed(rank, n, usedSet) == rank.ok /\ 1 <= rank.v /\ rank.v <= n

\* line 319: the rank is accepted
Accepts(rank, n, usedSet) == rank.ok /\ 1 <= rank.v /\ rank.v <= n /\ rank.v \notin usedSet

\* line 324: the unclaimed ranks of [1,n], ascending
RECURSIVE AvailableFrom(_, _, _)
AvailableFrom(r, n, usedSet) ==
    IF r > n THEN <<>>
    ELSE IF r \notin usedSet THEN <<r>> \o AvailableFrom(r + 1, n, usedSet)
    ELSE AvailableFrom(r + 1, n, usedSet)

Available(n, usedSet) == AvailableFrom(1, n, usedSet)

\* a variant of PopIndex: available.pop() takes the last element
PopIndexLast(avail) == Len(avail)

\* line 329: available.pop(0) takes the first element
PopIndex(avail) == 1

RemoveAt(s, i) == SubSeq(s, 1, i - 1) \o SubSeq(s, i + 1, Len(s))

RankInit ==
    /\ horse_ids \in IdSeqs
    /\ raw \in RawMaps(horse_ids)
    /\ assigned = [hid \in Range(horse_ids) |-> PyNone]
    /\ used = {}
    /\ available = <<>>
    /\ rank_i = 1
    /\ rank_pc = "pass1"
    /\ rank_result = <<>>
    \* the other functions are not being called
    /\ values = <<>> /\ prob_s = PyFloat(0) /\ prob_pc = "idle" /\ prob_result = <<>>
    /\ row_cols = <<>> /\ field_pc = "idle" /\ fields = <<>> /\ item = <<>>
    /\ markup = <<>> /\ limit = PyNone /\ rows = <<>> /\ parse_i = 1 /\ out = <<>>
    /\ parse_pc = "idle" /\ caught = FALSE /\ parse_result = <<>>

\* a variant of FirstPassStep in which the last claim of a rank wins: the
\* test "rank not in used" is dropped and the earlier holder loses the rank
FirstPassStepLastWins ==
    /\ rank_pc = "pass1"
    /\ rank_i <= Len(horse_ids)
    /\ LET hid == horse_ids[rank_i]
           rank == PyIntOf(DictGet(raw, hid))
       IN  IF rank.ok /\ 1 <= rank.v /\ rank.v <= Len(horse_ids)
           THEN /\ assigned' = [h \in DOMAIN assigned |->
                                   IF h = hid THEN PyInt(rank.v)
                                   ELSE IF assigned[h] = PyInt(rank.v) THEN PyNone
                                   ELSE assigned[h]]
                /\ used' = used \cup {rank.v}
           ELSE UNCHANGED <<assigned, used>>
    /\ rank_i' = rank_i + 1
    /\ UNCHANGED <<horse_ids, raw, available, rank_pc, rank_result>>
    /\ UNCHANGED <<prob_vars, field_vars, parse_vars>>

\* lines 313-321: one iteration of the first loop
FirstPassStep ==
    /\ rank_pc = "pass1"
    /\ rank_i <= Len(horse_ids)
    /\ LET hid == horse_ids[rank_i]
           rank == PyIntOf(DictGet(raw, hid))
       IN  IF Accepts(rank, Len(horse_ids), used)
           THEN /\ assigned' = [assigned EXCEPT ![hid] = PyInt(rank.v)]
                /\ used' = used \cup {rank.v}
           ELSE UNCHANGED <<assigned, used>>
    /\ rank_i' = rank_i + 1
    /\ UNCHANGED <<horse_ids, raw, available, rank_pc, rank_result>>
    /\ UNCHANGED <<prob_vars, field_vars, parse_vars>>

\* line 324: the first loop is over; the list of free ranks is built
BuildAvailable ==
    /\ rank_pc = "pass1"
    /\ rank_i > Len(horse_ids)
    /\ available' = Available(Len(horse_ids), used)
    /\ rank_i' = 1
    /\ rank_pc' = "pass2"
    /\ UNCHANGED <<horse_ids, raw, assigned, used, rank_result>>
    /\ UNCHANGED <<prob_vars, field_vars, parse_vars>>

\* lines 327-329: one iteration of the second loop; pop(0) of an empty
\* list raises IndexError
SecondPassStep ==
    /\ rank_pc = "pass2"
    /\ rank_i <= Len(horse_ids)
    /\ LET hid == horse_ids[rank_i]
       IN  IF assigned[hid] = PyNone
           THEN IF Len(available) = 0
                THEN /\ rank_pc' = "raised"
                     /\ UNCHANGED <<assigned, available, rank_i>>
                ELSE /\ assigned' = [assigned EXCEPT ![hid] = PyInt(available[PopIndex(available)])]
                     /\ available' = RemoveAt(available, PopIndex(available))
                     /\ rank_i' = rank_i + 1
                     /\ UNCHANGED rank_pc
           ELSE /\ rank_i' = rank_i + 1
                /\ UNCHANGED <<assigned, available, rank_pc>>
    /\ UNCHANGED <<horse_ids, raw, used, rank_result>>
    /\ UNCHANGED <<prob_vars, field_vars, parse_vars>>

\* line 331: int(assigned[hid]) for every identifier; int(None) raises
RankReturn ==
    /\ rank_pc = "pass2"
    /\ rank_i > Len(horse_ids)
    /\ IF \E hid \in Range(horse_ids) : ~PyIntOf(assigned[hid]).ok
       THEN /\ rank_pc' = "raised"
            /\ UNCHANGED rank_result
       ELSE /\ rank_pc' = "done"
            /\ rank_result' = [hid \in Range(horse_ids) |-> PyIntOf(assigned[hid]).v]
    /\ UNCHANGED <<horse_ids, raw, assigned, used, available, rank_i>>
    /\ UNCHANGED <<prob_vars, field_vars, parse_vars>>

RankNext == FirstPassStep \/ BuildAvailable \/ SecondPassStep \/ RankReturn

SpecRank == RankInit /\ [][RankNext]_vars

\* --------------------------------------------- claims: rank repair

\* the integer the raw value of the i-th identifier coerces to
Coerced(i) == PyIntOf(DictGet(raw, horse_ids[i]))

\* the claim's acceptance rule, stated on the inputs alone: the raw value
\* of the i-th identifier coerces to an integer of [1,N] that no earlier
\* accepted identifier carries
RECURSIVE FirstClaim(_)
FirstClaim(i) ==
    /\ Coerced(i).ok
    /\ Coerced(i).v \in 1..Len(horse_ids)
    /\ \A j \in 1..(i - 1) : ~(Coerced(j).ok /\ Coerced(j).v = Coerced(i).v /\ FirstClaim(j))

\* the ranks claimed in the first pass, by the claim's rule
ClaimedRanks == {Coerced(i).v : i \in {k \in 1..Len(horse_ids) : FirstClaim(k)}}

\* C1: for every sequence of N distinct identifiers and every raw mapping
\* (duplicates, out-of-range, non-numeric, missing), ensure_permutation_ranks
\* never raises (it is in one of its two loops, with the index inside the
\* list or just past it, or it has returned), and returns a mapping whose
\* keys are exactly the identifiers and whose values are exactly 1..N, each
\* used once.
C1_Bijection ==
    /\ rank_pc \in {"pass1", "pass2", "done"}
    /\ rank_i \in 1..(Len(horse_ids) + 1)
    /\ rank_pc = "done" =>
          /\ DOMAIN rank_result = Range(horse_ids)
          /\ {rank_result[h] : h \in Range(horse_ids)} = 1..Len(horse_ids)
          /\ \A g, h \in Range(horse_ids) : g # h => rank_result[g] # rank_result[h]

\* C1's case: three identifiers, a duplicated rank, an out-of-range value, a
\* non-numeric value or a missing key, and the call has returned
C1_Witness ==
    /\ rank_pc = "done"
    /\ Len(horse_ids) = 3
    /\ \E i, j \in 1..3 :
          /\ i # j
          /\ Coerced(i).ok /\ Coerced(j).ok /\ Coerced(i).v = Coerced(j).v
          /\ Coerced(i).v \in 1..3
    /\ \E k \in 1..3 : ~Coerced(k).ok \/ Coerced(k).v \notin 1..3

ExampleIds == <<"x", "y", "z">>

ExampleRaw == [h \in {"x", "y", "z"} |-> IF h = "z" THEN PyInt(5) ELSE PyInt(2)]

ExampleResult == [h \in {"x", "y", "z"} |-> IF h = "x" THEN 2 ELSE IF h = "y" THEN 1 ELSE 3]

\* C3: the identifiers left unassigned by the first pass receive exactly the
\* ranks of [1,N] not claimed in it, ascending along the canonical order; the
\* pool of unclaimed ranks is never exhausted early (pop never raises);
\* ids [x,y,z] with raw {x:2, y:2, z:5} yield x:2, y:1, z:3.
C3_SecondPass ==
    /\ rank_pc # "raised"
    /\ rank_pc = "done" =>
          /\ {rank_result[horse_ids[i]] : i \in {k \in 1..Len(horse_ids) : ~FirstClaim(k)}}
                = (1..Len(horse_ids)) \ ClaimedRanks
          /\ \A i, j \in 1..Len(horse_ids) :
                (i < j /\ ~FirstClaim(i) /\ ~FirstClaim(j))
                => rank_result[horse_ids[i]] < rank_result[horse_ids[j]]
          /\ (horse_ids = ExampleIds /\ raw = ExampleRaw) => rank_result = ExampleResult

\* C3's case: the example has run to its result
C3_Witness ==
    /\ rank_pc = "done"
    /\ horse_ids = ExampleIds
    /\ raw = ExampleRaw
    /\ rank_result = ExampleResult

\* ---------------------------------------------------------- normalize_probs

\* the largest number of keys of a score mapping
MaxKeys == 3

\* float(v) of a number; ok = FALSE stands for the TypeError / ValueError
PyFloatOf(val) ==
    CASE val.t = "int" -> [ok |-> TRUE, f |-> PyFloat(10 * val.v)]
      [] val.t \in {"float", "nan", "inf", "ninf"} -> [ok |-> TRUE, f |-> val]
      [] OTHER -> [ok |-> FALSE, f |-> PyNaN]

\* max(0.0, f): the second argument only when it compares greater than 0.0;
\* a comparison with NaN is false, so NaN yields 0.0
MaxZero(f) ==
    IF f.t = "inf" \/ (f.t = "float" /\ f.v > 0) THEN f ELSE PyFloat(0)

\* IEEE addition of two floats
FAdd(a, b) ==
    CASE a.t = "nan" \/ b.t = "nan" -> PyNaN
      [] a.t = "inf" -> IF b.t = "ninf" THEN PyNaN ELSE PyInf
      [] a.t = "ninf" -> IF b.t = "inf" THEN PyNaN ELSE PyNegInf
      [] b.t \in {"inf", "ninf"} -> b
      [] OTHER -> PyFloat(a.v + b.v)

\* sum(max(0.0, float(v)) for v in values.values()), from the start value 0
RECURSIVE ClampedSum(_, _)
ClampedSum(d, keys) ==
    IF keys = {} THEN PyFloat(0)
    ELSE LET k == CHOOSE x \in keys : TRUE
         IN  FAdd(ClampedSum(d, keys \ {k}), MaxZero(PyFloatOf(d[k]).f))

\* a variant of IsNonPositive: s < 0
IsNegative(s) == s.t = "ninf" \/ (s.t = "float" /\ s.v < 0)

\* line 294: s <= 0
IsNonPositive(s) == s.t = "ninf" \/ (s.t = "float" /\ s.v <= 0)

\* a float result: the exact quotient num/den, or a non-number
Ratio(a, b) == [t |-> "ratio", num |-> a, den |-> b]
NotANumber == [t |-> "nan", num |-> 0, den |-> 1]
Infinite == [t |-> "inf", num |-> 0, den |-> 1]

\* x / s for floats; ok = FALSE stands for the ZeroDivisionError
FDiv(x, s) ==
    CASE s.t = "float" /\ s.v = 0 -> [ok |-> FALSE, q |-> NotANumber]
      [] x.t = "nan" \/ s.t = "nan" -> [ok |-> TRUE, q |-> NotANumber]
      [] x.t \in {"inf", "ninf"} /\ s.t \in {"inf", "ninf"} -> [ok |-> TRUE, q |-> NotANumber]
      [] x.t \in {"inf", "ninf"} -> [ok |-> TRUE, q |-> Infinite]
      [] s.t \in {"inf", "ninf"} -> [ok |-> TRUE, q |-> Ratio(0, 1)]
      [] OTHER -> [ok |-> TRUE, q |-> Ratio(x.v, s.v)]

\* line 296: len(values) or 1
LenOrOne(d) == IF Cardinality(DOMAIN d) = 0 THEN 1 ELSE Cardinality(DOMAIN d)

\* the raw scores: -1.0, 0.0, 1.0, 3.0, the integer 2, NaN, +inf, -inf
ScoreValues == {PyFloat(0 - 10), PyFloat(0), PyFloat(10), PyFloat(30), PyInt(2),
                PyNaN, PyInf, PyNegInf}

ScoreMaps == UNION {[keys -> ScoreValues] : keys \in SUBSET {IdNames[i] : i \in 1..MaxKeys}}

ProbInit ==
    /\ values \in ScoreMaps
    /\ prob_s = PyFloat(0)
    /\ prob_pc = "sum"
    /\ prob_result = <<>>
    \* the other functions are not being called
    /\ horse_ids = <<>> /\ raw = <<>> /\ assigned = <<>> /\ used = {}
    /\ available = <<>> /\ rank_i = 1 /\ rank_pc = "idle" /\ rank_result = <<>>
    /\ row_cols = <<>> /\ field_pc = "idle" /\ fields = <<>> /\ item = <<>>
    /\ markup = <<>> /\ limit = PyNone /\ rows = <<>> /\ parse_i = 1 /\ out = <<>>
    /\ parse_pc = "idle" /\ caught = FALSE /\ parse_result = <<>>

\* line 293
SumScores ==
    /\ prob_pc = "sum"
    /\ IF \E k \in DOMAIN values : ~PyFloatOf(values[k]).ok
       THEN /\ prob_pc' = "raised"
            /\ UNCHANGED prob_s
       ELSE /\ prob_s' = ClampedSum(values, DOMAIN values)
            /\ prob_pc' = "branch"
    /\ UNCHANGED <<values, prob_result>>
    /\ UNCHANGED <<rank_vars, field_vars, parse_vars>>

\* lines 294-297: the uniform distribution
UniformFallback ==
    /\ prob_pc = "branch"
    /\ IsNonPositive(prob_s)
    /\ prob_result' = [k \in DOMAIN values |-> Ratio(1, LenOrOne(values))]
    /\ prob_pc' = "done"
    /\ UNCHANGED <<values, prob_s>>
    /\ UNCHANGED <<rank_vars, field_vars, parse_vars>>

\* line 298: every clamped score divided by the total
Scale ==
    /\ prob_pc = "branch"
    /\ ~IsNonPositive(prob_s)
    /\ IF \E k \in DOMAIN values : ~FDiv(MaxZero(PyFloatOf(values[k]).f), prob_s).ok
       THEN /\ prob_pc' = "raised"
            /\ UNCHANGED prob_result
       ELSE /\ prob_result' = [k \in DOMAIN values |->
                                  FDiv(MaxZero(PyFloatOf(values[k]).f), prob_s).q]
            /\ prob_pc' = "done"
    /\ UNCHANGED <<values, prob_s>>
    /\ UNCHANGED <<rank_vars, field_vars, parse_vars>>

ProbNext == SumScores \/ UniformFallback \/ Scale

SpecProbs == ProbInit /\ [][ProbNext]_vars

\* ------------------------------------------- claims: probability normalizer

\* the exact sum of the ratios d[k], k in keys, as a pair <<num, den>>
RECURSIVE RatioSum(_, _)
RatioSum(d, keys) ==
    IF keys = {} THEN <<0, 1>>
    ELSE LET k == CHOOSE x \in keys : TRUE
             r == RatioSum(d, keys \ {k})
         IN  <<r[1] * d[k].den + d[k].num * r[2], r[2] * d[k].den>>

SumsToOne(d) == LET r == RatioSum(d, DOMAIN d) IN r[1] = r[2]

\* a probability: a number of [0,1]
IsProbability(q) == q.t = "ratio" /\ q.den > 0 /\ 0 <= q.num /\ q.num <= q.den

\* every score is a number (not NaN) and none is above zero: the total after
\* clamping the negative scores to zero is <= 0
TotalNotPositive ==
    \A k \in DOMAIN values :
        \/ values[k].t = "ninf"
        \/ values[k].t \in {"int", "float"} /\ values[k].v <= 0

\* C4: when the total after clamping negative scores to zero is <= 0
\* (all-zero, all-negative or empty), normalize_probs returns, without
\* raising, a mapping with exactly the input keys, each of the N keys at 1/N,
\* summing to 1 when N >= 1, and the empty mapping when N = 0.
C4_UniformFallback ==
    TotalNotPositive =>
        /\ prob_pc # "raised"
        /\ prob_pc # "done" => ENABLED ProbNext
        /\ prob_pc = "done" =>
              /\ DOMAIN prob_result = DOMAIN values
              /\ \A k \in DOMAIN values :
                    /\ prob_result[k].t = "ratio"
                    /\ prob_result[k].num * Cardinality(DOMAIN values) = prob_result[k].den
              /\ Cardinality(DOMAIN values) >= 1 => SumsToOne(prob_result)
              /\ Cardinality(DOMAIN values) = 0 => prob_result = <<>>

\* C4's case: three keys, none positive, one negative and one zero, returned
C4_Witness ==
    /\ prob_pc = "done"
    /\ TotalNotPositive
    /\ Cardinality(DOMAIN values) = 3
    /\ \E k \in DOMAIN values : values[k] = PyFloat(0 - 10)
    /\ \E k \in DOMAIN values : values[k] = PyFloat(0)

\* C5: for every non-empty score mapping (positive, zero, negative, NaN or
\* infinite values) normalize_probs raises nothing and returns the input keys
\* with every value a number of [0,1] and the values summing to 1.
C5_WellFormed ==
    /\ prob_pc # "raised"
    /\ (prob_pc = "done" /\ DOMAIN values # {}) =>
          /\ DOMAIN prob_result = DOMAIN values
          /\ \A k \in DOMAIN values : IsProbability(prob_result[k])
          /\ SumsToOne(prob_result)

\* ------------------------------------------- text of a table cell

(***************************************************************************)
(* A cell text is a sequence of characters, each a string.  An ASCII       *)
(* character is itself; a Japanese character is written by a name:         *)
(*   satsu 札  poro 幌  hako 函  date 館  fuku 福  shima 島  nii 新        *)
(*   gata 潟  naka 中  yama 山  tou 東  kyou 京  miyako 都  han 阪         *)
(*   shin 神  ko 小  kura 倉  obi 帯  hiro 広  mon 門  betsu 別  mori 盛   *)
(*   oka 岡  mizu 水  sawa 沢  ura 浦  wa 和  funa 船  hashi 橋  oo 大     *)
(*   i 井  kawa 川  saki 崎  sono 園  ta 田  hime 姫  ji 路  kou 高        *)
(*   chi 知  sa 佐  ga 賀  kana 金  na 名  furu 古  ya 屋  kasa 笠         *)
(*   matsu 松  yame 止  tori 取  keshi 消  jo 除  gai 外  shitsu 失        *)
(*   kaku 格  nin 人  ki 気  shiba 芝  DA ダ  shou 障  sa_diff 差          *)
(*   dou 同  chaku 着  KU ク  BI ビ  HA ハ  NA ナ  A ア  TA タ  MA マ      *)
(***************************************************************************)

\* a field of a record: None, or a text
Absent == [t |-> "none", s |-> <<>>]
Text(c) == [t |-> "str", s |-> c]

\* line 188: the track names written between the brackets of the pattern
TrackNames == {<<"satsu", "poro">>, <<"hako", "date">>, <<"fuku", "shima">>,
               <<"nii", "gata">>, <<"naka", "yama">>, <<"tou", "kyou">>,
               <<"naka", "kyou">>, <<"kyou", "miyako">>, <<"han", "shin">>,
               <<"ko", "kura">>, <<"obi", "hiro">>, <<"mon", "betsu">>,
               <<"mori", "oka">>, <<"mizu", "sawa">>, <<"ura", "wa">>,
               <<"funa", "hashi">>, <<"oo", "i">>, <<"kawa", "saki">>,
               <<"sono", "ta">>, <<"hime", "ji">>, <<"kou", "chi">>,
               <<"sa", "ga">>, <<"kana", "sawa">>, <<"na", "furu", "ya">>,
               <<"kasa", "matsu">>}

\* line 188: the pattern is a character class [...]: it matches ONE
\* character, any of those written between the brackets
VenueClass == UNION {Range(w) : w \in TrackNames}

\* re.fullmatch(r"[...]", c)
VenueMatch(c) == Len(c) = 1 /\ c[1] \in VenueClass

\* line 178: re.fullmatch(r"\d{1,2}", c)
FinishDigits(c) == Len(c) \in 1..2 /\ AllDigits(c)

\* line 181: the special-status words (stopped, scratched, excluded,
\* disqualified)
SpecialWords == {<<"naka", "yame">>, <<"tori", "keshi">>, <<"jo", "gai">>, <<"shitsu", "kaku">>}

\* whether word w occurs in c at position i
OccursAt(c, w, i) == i >= 1 /\ i + Len(w) - 1 <= Len(c) /\ SubSeq(c, i, i + Len(w) - 1) = w

\* re.search(r"(w1|w2|...)", c) succeeds
Contains(c, words) == \E w \in words : \E i \in 1..Len(c) : OccursAt(c, w, i)

\* line 181
FinishSpecial(c) == Contains(c, SpecialWords)

\* lines 176-183: the cells scanned for the finish: cols[:4]
FinishWindow == 4

Min(a, b) == IF a <= b THEN a ELSE b

\* lines 177-183: the first cell of cols[:4] that is 1-2 digits or holds a
\* special-status word; the loop breaks there
RECURSIVE FinishFrom(_, _)
FinishFrom(cols, i) ==
    IF i > Min(Len(cols), FinishWindow) THEN Absent
    ELSE IF FinishDigits(cols[i]) THEN Text(cols[i])
    ELSE IF FinishSpecial(cols[i]) THEN Text(cols[i])
    ELSE FinishFrom(cols, i + 1)

\* lines 186-190: the first cell matching the venue pattern; the loop breaks
RECURSIVE VenueFrom(_, _)
VenueFrom(cols, i) ==
    IF i > Len(cols) THEN Absent
    ELSE IF VenueMatch(cols[i]) THEN Text(cols[i])
    ELSE VenueFrom(cols, i + 1)

\* line 197: re.search(r"(芝|ダ|障)", c): the leftmost such character
SurfaceChars == {"shiba", "DA", "shou"}

SurfaceMatch(c) ==
    IF \E i \in 1..Len(c) : c[i] \in SurfaceChars
    THEN Text(<<c[CHOOSE i \in 1..Len(c) :
                    c[i] \in SurfaceChars /\ \A j \in 1..(i - 1) : c[j] \notin SurfaceChars]>>)
    ELSE Absent

\* line 201 at position i: 4 digits and "m", else 3 digits and "m"
\* (the greedy \d{3,4}); the number of digits matched, 0 for no match
DistanceAt(c, i) ==
    IF i + 4 <= Len(c) /\ AllDigits(SubSeq(c, i, i + 3)) /\ c[i + 4] = "m" THEN 4
    ELSE IF i + 3 <= Len(c) /\ AllDigits(SubSeq(c, i, i + 2)) /\ c[i + 3] = "m" THEN 3
    ELSE 0

\* line 201: re.search(r"(\d{3,4})m", c): the leftmost match
DistanceMatch(c) ==
    IF \E i \in 1..Len(c) : DistanceAt(c, i) > 0
    THEN LET i == CHOOSE k \in 1..Len(c) :
                     DistanceAt(c, k) > 0 /\ \A j \in 1..(k - 1) : DistanceAt(c, j) = 0
         IN  Text(SubSeq(c, i, i + DistanceAt(c, i) - 1))
    ELSE Absent

\* lines 195-203: every cell is visited; each field is set only while None
RECURSIVE SurfaceFrom(_, _, _)
SurfaceFrom(cols, i, surface) ==
    IF i > Len(cols) THEN surface
    ELSE SurfaceFrom(cols, i + 1,
                     IF surface = Absent /\ SurfaceMatch(cols[i]) # Absent
                     THEN SurfaceMatch(cols[i]) ELSE surface)

RECURSIVE DistanceFrom(_, _, _)
DistanceFrom(cols, i, distanceM) ==
    IF i > Len(cols) THEN distanceM
    ELSE DistanceFrom(cols, i + 1,
                      IF distanceM = Absent /\ DistanceMatch(cols[i]) # Absent
                      THEN DistanceMatch(cols[i]) ELSE distanceM)

\* digits "." digits, with the lengths of the two runs in the given sets
Decimal(c, intLens, fracLens) ==
    \E p \in 1..Len(c) :
        /\ c[p] = "."
        /\ (p - 1) \in intLens /\ (Len(c) - p) \in fracLens
        /\ AllDigits(SubSeq(c, 1, p - 1)) /\ AllDigits(SubSeq(c, p + 1, Len(c)))

\* line 218: re.fullmatch(r"\d{2,3}(?:\.\d)?", c)
WeightMatch(c) == (Len(c) \in 2..3 /\ AllDigits(c)) \/ Decimal(c, 2..3, {1})

\* lines 217-222: the first matching cell; the loop breaks
RECURSIVE WeightFrom(_, _)
WeightFrom(cols, i) ==
    IF i > Len(cols) THEN Absent
    ELSE IF WeightMatch(cols[i]) THEN Text(cols[i])
    ELSE WeightFrom(cols, i + 1)

\* line 234: the margin words
MarginWords == {<<"oo", "sa_diff">>, <<"dou", "chaku">>, <<"KU", "BI">>, <<"HA", "NA">>, <<"A", "TA", "MA">>}

\* line 234: re.fullmatch(r"(大差|同着|クビ|ハナ|アタマ|[0-9]+\.[0-9])", c)
MarginMatch(c) == c \in MarginWords \/ Decimal(c, 1..Len(c), {1})

\* lines 233-236: the first matching cell; the loop breaks
RECURSIVE MarginFrom(_, _)
MarginFrom(cols, i) ==
    IF i > Len(cols) THEN Absent
    ELSE IF MarginMatch(cols[i]) THEN Text(cols[i])
    ELSE MarginFrom(cols, i + 1)

\* line 242: re.fullmatch(r"\d+(?:\.\d+)?", c)
OddsMatch(c) == AllDigits(c) \/ Decimal(c, 1..Len(c), 1..Len(c))

\* lines 241-244: every cell is visited; odds is set only while None
RECURSIVE OddsFrom(_, _, _)
OddsFrom(cols, i, odds) ==
    IF i > Len(cols) THEN odds
    ELSE OddsFrom(cols, i + 1,
                  IF OddsMatch(cols[i]) /\ odds = Absent THEN Text(cols[i]) ELSE odds)

\* the popularity marker 人気
PopMarker == <<"nin", "ki">>

\* the end of the longest run of characters of set S starting at i (i - 1
\* when c[i] is not in S)
RECURSIVE RunEnd(_, _, _)
RunEnd(c, i, S) == IF i <= Len(c) /\ c[i] \in S THEN RunEnd(c, i + 1, S) ELSE i - 1

DigitSet == Range(Digits)

\* line 246 at position i: \d+ then \s* then the marker
PopAt(c, i) ==
    /\ i <= Len(c) /\ IsDigit(c[i])
    /\ OccursAt(c, PopMarker, RunEnd(c, RunEnd(c, i, DigitSet) + 1, {" "}) + 1)

\* lines 245-246: "人気" in c, and re.search(r"(\d+)\s*人気", c): the digits
\* of the leftmost match
PopMatch(c) ==
    IF Contains(c, {PopMarker}) /\ \E i \in 1..Len(c) : PopAt(c, i)
    THEN LET i == CHOOSE k \in 1..Len(c) : PopAt(c, k) /\ \A j \in 1..(k - 1) : ~PopAt(c, j)
         IN  Text(SubSeq(c, i, RunEnd(c, i, DigitSet)))
    ELSE Absent

\* lines 241, 245-248: every cell is visited; pop is assigned at every match
RECURSIVE PopFrom(_, _, _)
PopFrom(cols, i, pop) ==
    IF i > Len(cols) THEN pop
    ELSE PopFrom(cols, i + 1, IF PopMatch(cols[i]) # Absent THEN PopMatch(cols[i]) ELSE pop)

\* lines 261-279: the record of a row (the fields read from the cells)
BuildItem(cols) ==
    [finish |-> FinishFrom(cols, 1),
     venue |-> VenueFrom(cols, 1),
     surface |-> SurfaceFrom(cols, 1, Absent),
     distanceM |-> DistanceFrom(cols, 1, Absent),
     weight |-> WeightFrom(cols, 1),
     margin |-> MarginFrom(cols, 1),
     odds |-> OddsFrom(cols, 1, Absent),
     pop |-> PopFrom(cols, 1, Absent),
     cols |-> cols]

\* ------------------------- the row loop body: the per-cell classifiers

\* the largest number of cells of a row
MaxCols == 5

\* the cell texts tried: "7", "19", 中止, 東京, 京, "3人気", "5人気",
\* "芝1600m", "1.5"
CellSamples == {<<"7">>, <<"1", "9">>, <<"naka", "yame">>, <<"tou", "kyou">>, <<"kyou">>,
                <<"3", "nin", "ki">>, <<"5", "nin", "ki">>,
                <<"shiba", "1", "6", "0", "0", "m">>, <<"1", ".", "5">>}

RowSamples == UNION {[1..n -> CellSamples] : n \in 0..MaxCols}

NoFields == [finish |-> Absent, venue |-> Absent, surface |-> Absent, distanceM |-> Absent,
             weight |-> Absent, margin |-> Absent, odds |-> Absent, pop |-> Absent]

\* lines 153-154: the cells of the row
FieldInit ==
    /\ row_cols \in RowSamples
    /\ field_pc = "finish"
    /\ fields = NoFields
    /\ item = <<>>
    \* the other functions are not being called
    /\ horse_ids = <<>> /\ raw = <<>> /\ assigned = <<>> /\ used = {}
    /\ available = <<>> /\ rank_i = 1 /\ rank_pc = "idle" /\ rank_result = <<>>
    /\ values = <<>> /\ prob_s = PyFloat(0) /\ prob_pc = "idle" /\ prob_result = <<>>
    /\ markup = <<>> /\ limit = PyNone /\ rows = <<>> /\ parse_i = 1 /\ out = <<>>
    /\ parse_pc = "idle" /\ caught = FALSE /\ parse_result = <<>>

\* lines 176-183
ScanFinish ==
    /\ field_pc = "finish"
    /\ fields' = [fields EXCEPT !.finish = FinishFrom(row_cols, 1)]
    /\ field_pc' = "venue"
    /\ UNCHANGED <<row_cols, item>>
    /\ UNCHANGED <<rank_vars, prob_vars, parse_vars>>

\* lines 186-190
ScanVenue ==
    /\ field_pc = "venue"
    /\ fields' = [fields EXCEPT !.venue = VenueFrom(row_cols, 1)]
    /\ field_pc' = "surface"
    /\ UNCHANGED <<row_cols, item>>
    /\ UNCHANGED <<rank_vars, prob_vars, parse_vars>>

\* lines 193-203
ScanSurfaceDistance ==
    /\ field_pc = "surface"
    /\ fields' = [fields EXCEPT !.surface = SurfaceFrom(row_cols, 1, Absent),
                                !.distanceM = DistanceFrom(row_cols, 1, Absent)]
    /\ field_pc' = "weight"
    /\ UNCHANGED <<row_cols, item>>
    /\ UNCHANGED <<rank_vars, prob_vars, parse_vars>>

\* lines 216-222
ScanWeight ==
    /\ field_pc = "weight"
    /\ fields' = [fields EXCEPT !.weight = WeightFrom(row_cols, 1)]
    /\ field_pc' = "margin"
    /\ UNCHANGED <<row_cols, item>>
    /\ UNCHANGED <<rank_vars, prob_vars, parse_vars>>

\* lines 231-236
ScanMargin ==
    /\ field_pc = "margin"
    /\ fields' = [fields EXCEPT !.margin = MarginFrom(row_cols, 1)]
    /\ field_pc' = "odds"
    /\ UNCHANGED <<row_cols, item>>
    /\ UNCHANGED <<rank_vars, prob_vars, parse_vars>>

\* lines 239-248
ScanOddsPop ==
    /\ field_pc = "odds"
    /\ fields' = [fields EXCEPT !.odds = OddsFrom(row_cols, 1, Absent),
                                !.pop = PopFrom(row_cols, 1, Absent)]
    /\ field_pc' = "item"
    /\ UNCHANGED <<row_cols, item>>
    /\ UNCHANGED <<rank_vars, prob_vars, parse_vars>>

\* lines 261-279
AssembleItem ==
    /\ field_pc = "item"
    /\ item' = [finish |-> fields.finish, venue |-> fields.venue, surface |-> fields.surface,
                distanceM |-> fields.distanceM, weight |-> fields.weight,
                margin |-> fields.margin, odds |-> fields.odds, pop |-> fields.pop,
                cols |-> row_cols]
    /\ field_pc' = "done"
    /\ UNCHANGED <<row_cols, fields>>
    /\ UNCHANGED <<rank_vars, prob_vars, parse_vars>>

FieldNext ==
    \/ ScanFinish \/ ScanVenue \/ ScanSurfaceDistance \/ ScanWeight
    \/ ScanMargin \/ ScanOddsPop \/ AssembleItem

SpecFields == FieldInit /\ [][FieldNext]_vars

\* ----------------------------------------- claims: the field classifiers

\* the value of a 1-2 digit numeral
NumeralIn(c, lo, hi) == FinishDigits(c) /\ DecVal(c) >= lo /\ DecVal(c) <= hi

\* C8: in every record the finish is absent, or a numeral of 1..18 taken from
\* one of the first 4 cells, or a special-status value; a cell holding a 1-2
\* digit numeral outside 1..18 (0, 19, 99) is never returned as the finish.
C8_FinishRange ==
    field_pc = "done" =>
        \/ item.finish = Absent
        \/ \E i \in 1..Min(Len(row_cols), 4) :
              /\ item.finish = Text(row_cols[i])
              /\ NumeralIn(row_cols[i], 1, 18) \/ FinishSpecial(row_cols[i])

\* the first cell of cols[1..n] that satisfies Match(_), as a field
FirstCell(cols, n, Match(_)) ==
    IF \E i \in 1..Min(Len(cols), n) : Match(cols[i])
    THEN Text(cols[CHOOSE i \in 1..Min(Len(cols), n) :
                       Match(cols[i]) /\ \A j \in 1..(i - 1) : ~Match(cols[j])])
    ELSE Absent

IsTrackName(c) == c \in TrackNames

\* C9: the venue is the first cell whose whole text equals one of the
\* enumerated track names, absent if no cell does; a cell that is exactly a
\* multi-character track name sets the venue, and a venue that is set is a
\* member of the enumerated set.
C9_VenueExact ==
    field_pc = "done" =>
        /\ item.venue = FirstCell(row_cols, Len(row_cols), IsTrackName)
        /\ item.venue # Absent => item.venue.s \in TrackNames

\* the value read from the first cell of cols[1..n] where Value(_) is not
\* Absent
FirstValue(cols, n, Value(_)) ==
    IF \E i \in 1..Min(Len(cols), n) : Value(cols[i]) # Absent
    THEN Value(cols[CHOOSE i \in 1..Min(Len(cols), n) :
                        Value(cols[i]) # Absent /\ \A j \in 1..(i - 1) : Value(cols[j]) = Absent])
    ELSE Absent

FinishMatch(c) == FinishDigits(c) \/ FinishSpecial(c)

\* C10: every per-cell classifier (finish, venue, surface, distance, weight,
\* margin, odds, popularity) returns the value of the first cell in its scan
\* order that matches its pattern, or absence; with two cells carrying a
\* popularity marker the popularity is the integer of the leftmost one.
C10_FirstMatch ==
    field_pc = "done" =>
        /\ item.finish = FirstCell(row_cols, FinishWindow, FinishMatch)
        /\ item.venue = FirstCell(row_cols, Len(row_cols), VenueMatch)
        /\ item.surface = FirstValue(row_cols, Len(row_cols), SurfaceMatch)
        /\ item.distanceM = FirstValue(row_cols, Len(row_cols), DistanceMatch)
        /\ item.weight = FirstCell(row_cols, Len(row_cols), WeightMatch)
        /\ item.margin = FirstCell(row_cols, Len(row_cols), MarginMatch)
        /\ item.odds = FirstCell(row_cols, Len(row_cols), OddsMatch)
        /\ item.pop = FirstValue(row_cols, Len(row_cols), PopMatch)

\* ----------------------------------------------- parse_horse_recent_results

\* the largest number of <tr> rows of a page
MaxRows == 3

\* a <tr>: whether it holds a link to /race/, and its cell texts.  The rows
\* tried: ("7", 東京) and ("19", "3人気", "5人気") and an empty row, each
\* with the link, and a row (京) without it
TrSamples == {[link |-> TRUE, cols |-> << <<"7">>, <<"tou", "kyou">> >>],
              [link |-> TRUE, cols |-> << <<"1", "9">>, <<"3", "nin", "ki">>, <<"5", "nin", "ki">> >>],
              [link |-> TRUE, cols |-> <<>>],
              [link |-> FALSE, cols |-> << <<"kyou">> >>]}

Markups == UNION {[1..n -> TrSamples] : n \in 0..MaxRows}

\* the limit: None, or an integer 0..MaxRows
Limits == {PyNone} \cup {PyInt(k) : k \in 0..MaxRows}

\* lines 145-148: the rows holding a link to /race/, in page order
RECURSIVE CandidateRows(_)
CandidateRows(trs) ==
    IF Len(trs) = 0 THEN <<>>
    ELSE IF trs[1].link THEN <<trs[1]>> \o CandidateRows(Tail(trs))
    ELSE CandidateRows(Tail(trs))

\* line 282: limit is not None and len(out) >= limit
LimitReached(lim, n) == lim.t # "none" /\ n >= lim.v

\* a variant of ExceptResult: the rows assembled so far are returned
ExceptResultPartial(partial) == partial

\* line 287: the value returned by the except clause
ExceptResult(partial) == <<>>

ParseInit ==
    /\ markup \in Markups
    /\ limit \in Limits
    /\ rows = <<>>
    /\ parse_i = 1
    /\ out = <<>>
    /\ parse_pc = "fetch"
    /\ caught = FALSE
    /\ parse_result = <<>>
    \* the other functions are not being called
    /\ horse_ids = <<>> /\ raw = <<>> /\ assigned = <<>> /\ used = {}
    /\ available = <<>> /\ rank_i = 1 /\ rank_pc = "idle" /\ rank_result = <<>>
    /\ values = <<>> /\ prob_s = PyFloat(0) /\ prob_pc = "idle" /\ prob_result = <<>>
    /\ row_cols = <<>> /\ field_pc = "idle" /\ fields = <<>> /\ item = <<>>

\* lines 141-142: the page is fetched and parsed
Fetch ==
    /\ parse_pc = "fetch"
    /\ parse_pc' = "collect"
    /\ UNCHANGED <<markup, limit, rows, parse_i, out, caught, parse_result>>
    /\ UNCHANGED <<rank_vars, prob_vars, field_vars>>

\* lines 141-142: http_get or the parser raises
FetchRaises ==
    /\ parse_pc = "fetch"
    /\ parse_pc' = "except"
    /\ UNCHANGED <<markup, limit, rows, parse_i, out, caught, parse_result>>
    /\ UNCHANGED <<rank_vars, prob_vars, field_vars>>

\* lines 145-148
CollectRows ==
    /\ parse_pc = "collect"
    /\ rows' = CandidateRows(markup)
    /\ parse_i' = 1
    /\ parse_pc' = "rows"
    /\ UNCHANGED <<markup, limit, out, caught, parse_result>>
    /\ UNCHANGED <<rank_vars, prob_vars, field_vars>>

\* lines 152-283: one iteration of the row loop: the record is built and
\* appended, then the limit is tested
RowStep ==
    /\ parse_pc = "rows"
    /\ parse_i <= Len(rows)
    /\ out' = Append(out, BuildItem(rows[parse_i].cols))
    /\ IF LimitReached(limit, Len(out'))
       THEN /\ parse_pc' = "return"
            /\ UNCHANGED parse_i
       ELSE /\ parse_i' = parse_i + 1
            /\ UNCHANGED parse_pc
    /\ UNCHANGED <<markup, limit, rows, caught, parse_result>>
    /\ UNCHANGED <<rank_vars, prob_vars, field_vars>>

\* lines 153-279: a call made while a row is processed raises
RowRaises ==
    /\ parse_pc = "rows"
    /\ parse_i <= Len(rows)
    /\ parse_pc' = "except"
    /\ UNCHANGED <<markup, limit, rows, parse_i, out, caught, parse_result>>
    /\ UNCHANGED <<rank_vars, prob_vars, field_vars>>

\* line 152: the rows are exhausted
RowsDone ==
    /\ parse_pc = "rows"
    /\ parse_i > Len(rows)
    /\ parse_pc' = "return"
    /\ UNCHANGED <<markup, limit, rows, parse_i, out, caught, parse_result>>
    /\ UNCHANGED <<rank_vars, prob_vars, field_vars>>

\* lines 285-287
ExceptReturn ==
    /\ parse_pc = "except"
    /\ caught' = TRUE
    /\ parse_result' = ExceptResult(out)
    /\ parse_pc' = "done"
    /\ UNCHANGED <<markup, limit, rows, parse_i, out>>
    /\ UNCHANGED <<rank_vars, prob_vars, field_vars>>

\* line 289
ParseReturn ==
    /\ parse_pc = "return"
    /\ parse_result' = out
    /\ parse_pc' = "done"
    /\ UNCHANGED <<markup, limit, rows, parse_i, out, caught>>
    /\ UNCHANGED <<rank_vars, prob_vars, field_vars>>

ParseNext ==
    \/ Fetch \/ FetchRaises \/ CollectRows \/ RowStep \/ RowRaises \/ RowsDone
    \/ ExceptReturn \/ ParseReturn

SpecParse == ParseInit /\ [][ParseNext]_vars

\* --------------------------------------------- claims: the row extractor

\* the qualifying rows of the page, by the claim's rule: those with a
\* race-reference link, in document order
Qualifying == SelectSeq(markup, LAMBDA tr : tr.link)

\* C6: for every cap K >= 0 and every page with M qualifying rows, when no
\* exception occurs the result has length <= K and <= M, exactly K records
\* when M > K, and its records are those of the first qualifying rows in
\* document order; rows without a race-reference link produce no record.
C6_Cap ==
    (parse_pc = "done" /\ ~caught) =>
        /\ Len(parse_result) <= Len(Qualifying)
        /\ \A i \in 1..Len(parse_result) : parse_result[i] = BuildItem(Qualifying[i].cols)
        /\ (limit.t = "int" /\ limit.v >= 0) =>
              /\ Len(parse_result) <= limit.v
              /\ Len(Qualifying) > limit.v => Len(parse_result) = limit.v
        /\ limit.t = "none" => Len(parse_result) = Len(Qualifying)

\* C7: if fetching or parsing fails, or an exception occurs while a row is
\* processed (even after earlier rows were assembled), the call still
\* returns, and what it returns is the empty sequence, never a partial list.
C7_EmptyOnFailure ==
    /\ parse_pc = "except" => ENABLED ExceptReturn
    /\ (parse_pc = "done" /\ caught) => parse_result = <<>>
    /\ parse_pc # "done" => ENABLED ParseNext

\* C7's case: an exception after two rows were assembled, and the call has
\* returned
C7_Witness ==
    /\ parse_pc = "done"
    /\ caught
    /\ Len(out) = 2
    /\ parse_result = <<>>

====
